---- MODULE Spec2Model ----
(***************************************************************************)
(* A model of bot.py, the single-file IVASMS OTP bot: the SQLite ledger    *)
(* (users, earnings, available_numbers, otps, withdrawals), the inbox      *)
(* matcher, the Telegram handlers and the two background loops, under the  *)
(* cooperative asyncio scheduler (a task yields only at an await).         *)
(*                                                                         *)
(* Money is counted in whole currency units (EARN_PER_SMS = 1.0 and the    *)
(* withdrawal amounts are whole numbers); the REAL columns hold them       *)
(* exactly.  Text is a sequence of one-character strings.                  *)
(*                                                                         *)
(* Spec runs every handler and both loops; SpecMatcher feeds the poll loop *)
(* snapshots that reach the edges of the matcher's windows; SpecLedger     *)
(* lets one user be credited three times around two withdrawals; SpecPoll  *)
(* runs the loops while probes, fetches, the store and every send fail,    *)
(* with the fairness of the event loop; SpecRegister runs every handler    *)
(* that starts with ensure_user, for both users.                           *)
(***************************************************************************)
EXTENDS Integers, Sequences, FiniteSets, Bags, TLC

\* ------------------------------------------------------- configuration

\* ADMIN_ID and GROUP_ID are read from .env; the model runs the configuration
\* with a notification group.
ADMIN_ID == 1

GROUP_ID == 9

\* EARN_PER_SMS (default 1.0) and MIN_WITHDRAWAL (from .env), in whole units.
EARN_PER_SMS == 1

MIN_WITHDRAWAL == 2

\* The phone-number pattern \+?\d{6,15} and OTP_RE = \b(\d{4,8})\b.
NUM_MIN_DIGITS == 6

NUM_MAX_DIGITS == 15

OTP_MIN_DIGITS == 4

OTP_MAX_DIGITS == 8

\* The matcher's forward and backward windows, in characters.
FWD_WINDOW == 400

BACK_WINDOW == 200

\* SQL NULL / Python None in an integer column (Telegram user ids are positive).
NULL == 0

\* The Telegram users that talk to the bot; the admin is one of them.
UserIds == {1, 2}

\* The users that ask for a withdrawal in a run of the model.
Withdrawers == {2}

\* The rows the withdrawals table may hold in a run of the model.
MaxWithdrawals == 2

\* The amounts a user types into "method,number,amount".
MaxAmount == 2

Amounts == 1..MaxAmount

\* The outcomes of a session probe in a run of the model (TRUE: it succeeds).
Probes == {TRUE}

\* ------------------------------------------------------------------ text

Digits == {"0", "1", "2", "3", "4", "5", "6", "7", "8", "9"}

\* The letters the inbox texts of this model use; with the digits and "_"
\* they are the \w characters of Python's re.
Letters == {"O", "T", "P", "c", "o", "d", "e", "x"}

WordChars == Digits \cup Letters \cup {"_"}

Min(a, b) == IF a <= b THEN a ELSE b

Max(a, b) == IF a >= b THEN a ELSE b

\* Python's text[a:b] (0-based, end-exclusive, clipped) of a 1-based sequence.
Slice(text, a, b) == SubSeq(text, Max(a, 0) + 1, Min(b, Len(text)))

\* The number of consecutive digits of text from position i (1-based) on.
RECURSIVE DigitsFrom(_, _)
DigitsFrom(text, i) ==
  IF i > Len(text) \/ text[i] \notin Digits THEN 0
  ELSE 1 + DigitsFrom(text, i + 1)

\* The length of the match of (?:\+?\d{6,15}) that starts at position i, 0 when
\* there is none: an optional "+", then 6 to 15 digits, greedy.
NumberMatchAt(text, i) ==
  IF text[i] = "+"
  THEN LET d == Min(DigitsFrom(text, i + 1), NUM_MAX_DIGITS)
       IN  IF d >= NUM_MIN_DIGITS THEN 1 + d ELSE 0
  ELSE LET d == Min(DigitsFrom(text, i), NUM_MAX_DIGITS)
       IN  IF d >= NUM_MIN_DIGITS THEN d ELSE 0

\* re.finditer / re.findall of the phone-number pattern: the non-overlapping
\* matches from position i on, leftmost first, as [s, e): s the first position of
\* the match, e the position after its last.
RECURSIVE FindNumbers(_, _)
FindNumbers(text, i) ==
  LET ps == {p \in i..Len(text) : NumberMatchAt(text, p) > 0}
  IN  IF ps = {} THEN <<>>
      ELSE LET p == CHOOSE q \in ps : \A r \in ps : q <= r
               n == NumberMatchAt(text, p)
           IN  <<[s |-> p, e |-> p + n]>> \o FindNumbers(text, p + n)

\* Whether \b(\d{4,8})\b matches w at position p: p starts a digit run of 4 to 8
\* digits that has no word character before or after it in w.
OtpMatchAt(w, p) ==
  /\ w[p] \in Digits
  /\ (p = 1 \/ w[p - 1] \notin WordChars)
  /\ LET l == DigitsFrom(w, p)
     IN  /\ l >= OTP_MIN_DIGITS
         /\ l <= OTP_MAX_DIGITS
         /\ (p + l > Len(w) \/ w[p + l] \notin WordChars)

\* OTP_RE.search(w): group 1 of the leftmost match, <<>> when there is none.
OTP_RE_search(w) ==
  LET ps == {p \in 1..Len(w) : OtpMatchAt(w, p)}
  IN  IF ps = {} THEN <<>>
      ELSE LET p == CHOOSE q \in ps : \A r \in ps : q <= r
           IN  SubSeq(w, p, p + DigitsFrom(w, p) - 1)

\* ---------------------------------------------------------- inbox texts

N1 == <<"1", "5", "5", "5", "0", "0", "0", "1", "1", "1">>

N2 == <<"1", "5", "5", "5", "0", "0", "0", "2", "2", "2">>

SP == <<" ">>

W_OTP == <<" ", "O", "T", "P", " ">>

W_code == <<" ", "c", "o", "d", "e", " ">>

O1 == <<"9", "3", "2", "1">>

O2 == <<"4", "8", "2", "1">>

\* "1555000111 OTP 9321 1555000111 OTP 9321": one pair, twice in one snapshot.
TextDup == N1 \o W_OTP \o O1 \o SP \o N1 \o W_OTP \o O1

\* "1555000111 OTP 9321 1555000222 code 4821": it overlaps TextDup.
TextTwo == N1 \o W_OTP \o O1 \o SP \o N2 \o W_code \o O2

\* The snapshots of the remote page /portal/live/my_sms the model fetches.
Texts == {TextDup, TextTwo}

\* What scraper.get(MY_SMS_URL) gives: a response with a status and a text, or
\* an exception (status 0 here).
Responses ==
  [status : {200}, text : Texts] \cup {[status |-> 500, text |-> TextTwo],
                                       [status |-> 0, text |-> <<>>]}

Raised(resp) == resp.status = 0

\* n characters of running text between a number and a code.
Filler(n) == [i \in 1..n |-> "x"]

O3 == <<"7", "1", "0", "4">>

O4 == <<"3", "3", "5", "8">>

O5 == <<"5", "5", "6", "6">>

O6 == <<"4", "8", "2", "9", "1", "3">>

O7 == <<"2", "0", "4", "0">>

O8 == <<"6", "0", "1", "7", "2", "2", "4", "5">>

\* "4821 1555000111 OTP 9321": a code before the number and one after it.
TextBoth == O2 \o SP \o N1 \o W_OTP \o O1

\* "7104 1555000111 OTP": a code before the number only.
TextBack == O3 \o SP \o N1 \o W_OTP

\* The code 3358 ends on the last character of the window after the number.
TextEdge == N1 \o Filler(FWD_WINDOW - 5) \o SP \o O4

\* The code 5566 starts behind the window after the number 1555000111, none
\* before it; then "1555000222 code 2040".
TextFar ==
  N1 \o Filler(FWD_WINDOW) \o SP \o O5 \o SP \o N2 \o W_code \o O7

\* The code 9321 ends before the window in front of the number, none after it.
TextBackFar == O1 \o SP \o Filler(BACK_WINDOW) \o N2

\* The code 60172245 starts inside the window after the number and ends
\* behind it: the window holds its first four digits.
TextCut == N2 \o Filler(FWD_WINDOW - 5) \o SP \o O8

\* "1555000222 code 482913": a code of six digits.
TextSix == N2 \o W_code \o O6

\* The snapshots the poll cycles of SpecMatcher fetch.
MatcherTexts ==
  {TextBoth, TextBack, TextEdge, TextFar, TextBackFar, TextCut, TextSix}

MatcherResponses == [status : {200}, text : MatcherTexts]

Pages == {resp.text : resp \in Responses \cup MatcherResponses}

\* ----------------------------------------------------------- DB helpers

\* ensure_user: INSERT OR IGNORE into users, and into earnings with balance 0.
ensure_user_users(us, user_id) == us \cup {user_id}

\* ensure_user, had it written INSERT OR REPLACE into earnings.
ensure_user_earnings_replace(ea, user_id) ==
  [v \in DOMAIN ea \cup {user_id} |-> IF v = user_id THEN 0 ELSE ea[v]]

ensure_user_earnings(ea, user_id) ==
  IF user_id \in DOMAIN ea THEN ea ELSE ea @@ (user_id :> 0)

get_balance(ea, user_id) == IF user_id \in DOMAIN ea THEN ea[user_id] ELSE 0

credit_user_twice(ea, user_id, amount) ==
  [ensure_user_earnings(ea, user_id) EXCEPT ![user_id] = @ + amount + amount]

credit_user(ea, user_id, amount) ==
  [ensure_user_earnings(ea, user_id) EXCEPT ![user_id] = @ + amount]

HasNumber(nums, number) == \E i \in 1..Len(nums) : nums[i].number = number

\* INSERT OR REPLACE: the row is written anew, unassigned.
add_available_number_replace(nums, number, country) ==
  LET row == [number |-> number, country |-> country, assigned_to |-> NULL]
  IN  IF HasNumber(nums, number)
      THEN [i \in 1..Len(nums) |->
              IF nums[i].number = number THEN row ELSE nums[i]]
      ELSE Append(nums, row)

\* A plain INSERT into a table without the primary key on number.
add_available_number_dup(nums, number, country) ==
  Append(nums, [number |-> number, country |-> country, assigned_to |-> NULL])

\* INSERT OR IGNORE INTO available_numbers (number, country).
add_available_number(nums, number, country) ==
  IF HasNumber(nums, number) THEN nums
  ELSE Append(nums, [number |-> number, country |-> country,
                     assigned_to |-> NULL])

\* fetchone: the first, in rowid order, of the rows a SELECT keeps; 0 when none.
FirstRow(is) == IF is = {} THEN 0 ELSE CHOOSE i \in is : \A j \in is : i <= j

\* The SELECT without its WHERE assigned_to IS NULL.
assign_number_to_user_any(nums, user_id) ==
  LET i == FirstRow(1..Len(nums))
  IN  IF i = 0 THEN [number |-> <<>>, nums |-> nums]
      ELSE [number |-> nums[i].number,
            nums |-> [nums EXCEPT ![i].assigned_to = user_id]]

\* assign_number_to_user: the number given (<<>> for None) and the table after.
assign_number_to_user(nums, user_id) ==
  LET i == FirstRow({k \in 1..Len(nums) : nums[k].assigned_to = NULL})
  IN  IF i = 0 THEN [number |-> <<>>, nums |-> nums]
      ELSE [number |-> nums[i].number,
            nums |-> [nums EXCEPT ![i].assigned_to = user_id]]

get_user_by_number(nums, number) ==
  LET i == FirstRow({k \in 1..Len(nums) : nums[k].number = number})
  IN  IF i = 0 THEN NULL ELSE nums[i].assigned_to

otp_exists_never(ot, number, otp) == FALSE

otp_exists(ot, number, otp) == BagIn([number |-> number, otp |-> otp], ot)

save_otp(ot, number, otp) == ot (+) SetToBag({[number |-> number, otp |-> otp]})

\* create_withdrawal: the row's id is its position (AUTOINCREMENT from 1).
create_withdrawal(ws, user_id, amount) ==
  Append(ws, [user_id |-> user_id, amount |-> amount, status |-> "pending"])

\* approve_withdrawal without the balance check of line 181.
approve_withdrawal_nocheck(ws, ea, wid) ==
  IF ~(wid \in 1..Len(ws) /\ ws[wid].status = "pending")
  THEN [ok |-> FALSE, ws |-> ws, ea |-> ea]
  ELSE LET user_id == ws[wid].user_id
           amount == ws[wid].amount
       IN  IF user_id \notin DOMAIN ea
           THEN [ok |-> FALSE, ws |-> ws, ea |-> ea]
           ELSE [ok |-> TRUE,
                 ws |-> [ws EXCEPT ![wid].status = "approved"],
                 ea |-> [ea EXCEPT ![user_id] = @ - amount]]

\* approve_withdrawal that marks the request before it checks the balance.
approve_withdrawal_early(ws, ea, wid) ==
  IF ~(wid \in 1..Len(ws) /\ ws[wid].status = "pending")
  THEN [ok |-> FALSE, ws |-> ws, ea |-> ea]
  ELSE LET user_id == ws[wid].user_id
           amount == ws[wid].amount
           marked == [ws EXCEPT ![wid].status = "approved"]
       IN  IF user_id \notin DOMAIN ea \/ ea[user_id] < amount
           THEN [ok |-> FALSE, ws |-> marked, ea |-> ea]
           ELSE [ok |-> TRUE, ws |-> marked,
                 ea |-> [ea EXCEPT ![user_id] = @ - amount]]

\* approve_withdrawal without "AND status='pending'" in its SELECT.
approve_withdrawal_anystatus(ws, ea, wid) ==
  IF ~(wid \in 1..Len(ws))
  THEN [ok |-> FALSE, ws |-> ws, ea |-> ea]
  ELSE LET user_id == ws[wid].user_id
           amount == ws[wid].amount
       IN  IF user_id \notin DOMAIN ea \/ ea[user_id] < amount
           THEN [ok |-> FALSE, ws |-> ws, ea |-> ea]
           ELSE [ok |-> TRUE,
                 ws |-> [ws EXCEPT ![wid].status = "approved"],
                 ea |-> [ea EXCEPT ![user_id] = @ - amount]]

\* approve_withdrawal: its result, and the two tables after it.
approve_withdrawal(ws, ea, wid) ==
  IF ~(wid \in 1..Len(ws) /\ ws[wid].status = "pending")
  THEN [ok |-> FALSE, ws |-> ws, ea |-> ea]
  ELSE LET user_id == ws[wid].user_id
           amount == ws[wid].amount
       IN  IF user_id \notin DOMAIN ea \/ ea[user_id] < amount
           THEN [ok |-> FALSE, ws |-> ws, ea |-> ea]
           ELSE [ok |-> TRUE,
                 ws |-> [ws EXCEPT ![wid].status = "approved"],
                 ea |-> [ea EXCEPT ![user_id] = @ - amount]]

\* ------------------------------------------------------ cookies & login

\* login_and_get_scraper: cookies.json after it, and whether the scraper it
\* returns passed the probe.  loaded_ok: the probe of the loaded session
\* succeeds; login_ok: the fresh login's probe does.  It returns a scraper in
\* every case.
login_and_get_scraper(cookies, loaded_ok, login_ok) ==
  IF cookies # "absent" /\ loaded_ok THEN [cookies |-> cookies, probed |-> TRUE]
  ELSE IF login_ok THEN [cookies |-> "probed", probed |-> TRUE]
  ELSE [cookies |-> cookies, probed |-> FALSE]

\* --------------------------------------------------------- sync numbers

\* The distinct phone-number matches of a text: set(re.findall(...)).
FoundNumbers(text) ==
  LET ms == FindNumbers(text, 1)
  IN  {SubSeq(text, ms[k].s, ms[k].e - 1) : k \in 1..Len(ms)}

\* FoundNumbers of each page of the model, computed once.
FoundIn == [text \in Pages |-> FoundNumbers(text)]

\* The orders in which Python may iterate a set of strings.
Orders(S) ==
  {q \in [1..Cardinality(S) -> S] : \A i, j \in 1..Cardinality(S) :
                                        q[i] = q[j] => i = j}

RECURSIVE AddAll(_, _, _)
AddAll(nums, order, k) ==
  IF k > Len(order) THEN nums
  ELSE AddAll(add_available_number(nums, order[k], "UNKNOWN"), order, k + 1)

\* sync_numbers_from_ivasms after its login: the table after the loop over
\* set(found) in the given order, and the count it returns.  The status of the
\* response is not read; an exception returns 0.
sync_numbers_from_ivasms(nums, resp, order) ==
  IF Raised(resp) THEN [added |-> 0, nums |-> nums]
  ELSE [added |-> Len(order), nums |-> AddAll(nums, order, 1)]

\* -------------------------------------------------------- OTP detection

\* Occurrence, had it searched the window before the number first.
Occurrence_back_first(text, m) ==
  LET start == m.e - 1
      window == Slice(text, start, start + FWD_WINDOW)
      back_window == Slice(text, Max(0, m.s - 1 - BACK_WINDOW), m.s - 1)
      back == OTP_RE_search(back_window)
  IN  [number |-> SubSeq(text, m.s, m.e - 1),
       otp |-> IF back # <<>> THEN back ELSE OTP_RE_search(window)]

\* What the loop of process_incoming_otps_single_scraper finds for the match
\* m of the phone-number pattern, before it looks at the history: the number,
\* and the OTP of the forward window or else of the backward window (<<>> when
\* neither holds one).
Occurrence(text, m) ==
  LET start == m.e - 1
      window == Slice(text, start, start + FWD_WINDOW)
      fwd == OTP_RE_search(window)
      back_window == Slice(text, Max(0, m.s - 1 - BACK_WINDOW), m.s - 1)
  IN  [number |-> SubSeq(text, m.s, m.e - 1),
       otp |-> IF fwd # <<>> THEN fwd ELSE OTP_RE_search(back_window)]

\* The occurrences of a text in order of appearance.
Occurrences(text) ==
  LET ms == FindNumbers(text, 1)
  IN  [k \in 1..Len(ms) |-> Occurrence(text, ms[k])]

\* Occurrences of each page of the model, computed once.
OccurrencesIn == [text \in Pages |-> Occurrences(text)]

\* The loop over the occurrences occ[k..]: one without an OTP, or whose pair
\* otp_exists, is skipped; the others are saved and appended to the results.
RECURSIVE MatchLoop(_, _, _, _)
MatchLoop(occ, k, ot, res) ==
  IF k > Len(occ) THEN [otps |-> ot, results |-> res]
  ELSE IF occ[k].otp = <<>> \/ otp_exists(ot, occ[k].number, occ[k].otp)
       THEN MatchLoop(occ, k + 1, ot, res)
       ELSE MatchLoop(occ, k + 1, save_otp(ot, occ[k].number, occ[k].otp),
                      Append(res, occ[k]))

\* process_incoming_otps_single_scraper: the otps table and the results after
\* it; a response that is not 200, or an exception, gives no result.
process_incoming_otps_single_scraper(resp, ot) ==
  IF Raised(resp) \/ resp.status # 200 THEN [otps |-> ot, results |-> <<>>]
  ELSE MatchLoop(OccurrencesIn[resp.text], 1, ot, <<>>)

\* ---------------------------------------------------------------- state

VARIABLES
  booted,             \* on_startup has run in this run of the process
  users,              \* table users: the user_id of its rows
  earnings,           \* table earnings: user_id -> balance
  available_numbers,  \* table available_numbers, in rowid order
  otps,               \* table otps: the bag of its (number, otp) rows
  withdrawals,        \* table withdrawals; a row's id is its position
  cookies_file,       \* cookies.json: "absent", or saved "probed" / "unprobed"
  user_states,        \* the dict user_states
  prompting,          \* users whose cb_withdraw waits at its edit_text
  popping,            \* users whose handle_withdraw_text waits at a reply
  poll_pc,            \* the await otp_poll_loop is suspended at
  results,            \* otp_poll_loop's results not yet notified
  owed,               \* history: (owner at write, number, otp) of saved OTPs
  credit_log,         \* history: (user, number, otp) of the credits applied
  handed_out,         \* history: (user, number) assign_number_to_user returned
  synced,             \* history: the texts a sync has read, once and again
  shadowed,           \* history: requests left pending by an approval that
                      \* took the balance both were within
  cycles,             \* history: the poll cycles started, modulo 2
  last                \* the handler or step that ran last, and what it returned

vars ==
  <<booted, users, earnings, available_numbers, otps, withdrawals,
    cookies_file, user_states, prompting, popping, poll_pc, results, owed,
    credit_log, handed_out, synced, shadowed, cycles, last>>

db == <<users, earnings, available_numbers, otps, withdrawals>>

tasks == <<user_states, prompting, popping, poll_pc, results>>

history == <<owed, credit_log, handed_out, synced, shadowed, cycles>>

\* What `last` holds: the operation, the number it was given (approve: the id)
\* or returned (poll: how many results), and its success (poll: status 200).
\* Operations whose result no property reads leave Other.
Ret(op, n, ok) == [op |-> op, n |-> n, ok |-> ok]

Other == Ret("other", 0, FALSE)

\* The history of syncs after one more has read resp.
SyncedAfter(sy, resp) ==
  IF Raised(resp) THEN sy
  ELSE [once |-> sy.once \cup {resp.text},
        again |-> IF resp.text \in sy.once THEN sy.again \cup {resp.text}
                  ELSE sy.again]

\* data.db and cookies.json do not exist and the process has not started.
Init ==
  /\ booted = FALSE
  /\ users = {}
  /\ earnings = <<>>
  /\ available_numbers = <<>>
  /\ otps = EmptyBag
  /\ withdrawals = <<>>
  /\ cookies_file = "absent"
  /\ user_states = [u \in UserIds |-> "none"]
  /\ prompting = {}
  /\ popping = {}
  /\ poll_pc = "sleep"
  /\ results = <<>>
  /\ owed = EmptyBag
  /\ credit_log = EmptyBag
  /\ handed_out = EmptyBag
  /\ synced = [once |-> {}, again |-> {}]
  /\ shadowed = {}
  /\ cycles = 0
  /\ last = Other

\* ------------------------------------------------------------- startup

\* on_startup: init_db, ensure_user(ADMIN_ID), the initial sync, and the two
\* background tasks are created.
OnStartup(loaded_ok, login_ok, resp, order) ==
  /\ ~booted
  /\ LET lg == login_and_get_scraper(cookies_file, loaded_ok, login_ok)
         sy == sync_numbers_from_ivasms(available_numbers, resp, order)
     IN  /\ cookies_file' = lg.cookies
         /\ available_numbers' = sy.nums
         /\ synced' = SyncedAfter(synced, resp)
         /\ last' = Other
  /\ users' = ensure_user_users(users, ADMIN_ID)
  /\ earnings' = ensure_user_earnings(earnings, ADMIN_ID)
  /\ booted' = TRUE
  /\ UNCHANGED <<otps, withdrawals, tasks, owed, credit_log, handed_out,
                 shadowed, cycles>>

\* The process stops (KeyboardInterrupt, a kill) and is started again: data.db
\* and cookies.json stay, every task and its local state is gone.
Restart ==
  /\ booted
  /\ booted' = FALSE
  /\ user_states' = [u \in UserIds |-> "none"]
  /\ prompting' = {}
  /\ popping' = {}
  /\ poll_pc' = "sleep"
  /\ results' = <<>>
  /\ last' = Other
  /\ UNCHANGED <<db, cookies_file, history>>

\* ------------------------------------------------------------ handlers

\* cmd_start: ensure_user, then the welcome message.
CmdStart(u) ==
  /\ booted
  /\ users' = ensure_user_users(users, u)
  /\ earnings' = ensure_user_earnings(earnings, u)
  /\ last' = Other
  /\ UNCHANGED <<booted, available_numbers, otps, withdrawals, cookies_file,
                 tasks, history>>

\* cb_get_number: ensure_user and assign_number_to_user, then the answer.
CbGetNumber(u) ==
  /\ booted
  /\ users' = ensure_user_users(users, u)
  /\ earnings' = ensure_user_earnings(earnings, u)
  /\ LET r == assign_number_to_user(available_numbers, u)
     IN  /\ available_numbers' = r.nums
         /\ handed_out' =
              IF r.number = <<>> THEN handed_out
              ELSE handed_out (+) SetToBag({[user |-> u, number |-> r.number]})
         /\ last' = Other
  /\ UNCHANGED <<booted, otps, withdrawals, cookies_file, tasks, owed,
                 credit_log, synced, shadowed, cycles>>

\* cb_account: ensure_user, then the balance (and the numbers) are shown.
CbAccount(u) ==
  /\ booted
  /\ users' = ensure_user_users(users, u)
  /\ earnings' = ensure_user_earnings(earnings, u)
  /\ last' = Other
  /\ UNCHANGED <<booted, available_numbers, otps, withdrawals, cookies_file,
                 tasks, history>>

\* cb_withdraw up to its await: below the minimum it answers and returns; else
\* it sends the prompt, and sets the user's state once the send returns.
CbWithdraw(u) ==
  /\ booted
  /\ users' = ensure_user_users(users, u)
  /\ earnings' = ensure_user_earnings(earnings, u)
  /\ LET bal == get_balance(earnings', u)
     IN  /\ prompting' = IF bal < MIN_WITHDRAWAL THEN prompting
                         ELSE prompting \cup {u}
         /\ last' = Other
  /\ UNCHANGED <<booted, available_numbers, otps, withdrawals, cookies_file,
                 user_states, popping, poll_pc, results, history>>

\* cb_withdraw after edit_text returned: user_states[u] = "awaiting_withdraw".
CbWithdrawPrompted(u) ==
  /\ booted
  /\ u \in prompting
  /\ prompting' = prompting \ {u}
  /\ user_states' = [user_states EXCEPT ![u] = "awaiting_withdraw"]
  /\ last' = Other
  /\ UNCHANGED <<booted, db, cookies_file, popping, poll_pc, results, history>>

\* cb_withdraw when edit_text raised: the handler ends, the state is not set.
CbWithdrawSendFails(u) ==
  /\ booted
  /\ u \in prompting
  /\ prompting' = prompting \ {u}
  /\ last' = Other
  /\ UNCHANGED <<booted, db, cookies_file, user_states, popping, poll_pc,
                 results, history>>

\* handle_withdraw_text up to its first await, for a message the filter's
\* pattern matches: it returns at once unless the user is awaiting_withdraw;
\* amount > balance is refused; else the pending request is created.  The
\* state is popped only after the replies.
HandleWithdrawText(u, amount) ==
  /\ booted
  /\ user_states[u] = "awaiting_withdraw"
  /\ amount > get_balance(earnings, u) \/ Len(withdrawals) < MaxWithdrawals
  /\ LET bal == get_balance(earnings, u)
     IN  IF amount > bal
         THEN /\ withdrawals' = withdrawals
              /\ last' = Other
         ELSE /\ withdrawals' = create_withdrawal(withdrawals, u, amount)
              /\ last' = Other
  /\ popping' = popping \cup {u}
  /\ UNCHANGED <<booted, users, earnings, available_numbers, otps,
                 cookies_file, user_states, prompting, poll_pc, results,
                 history>>

\* handle_withdraw_text after its replies: user_states.pop(u).
HandleWithdrawTextEnd(u) ==
  /\ booted
  /\ u \in popping
  /\ popping' = popping \ {u}
  /\ user_states' = [user_states EXCEPT ![u] = "none"]
  /\ last' = Other
  /\ UNCHANGED <<booted, db, cookies_file, prompting, poll_pc, results,
                 history>>

\* handle_withdraw_text when the reply inside its except clause raises: the
\* handler ends before the pop.
HandleWithdrawTextDies(u) ==
  /\ booted
  /\ u \in popping
  /\ popping' = popping \ {u}
  /\ last' = Other
  /\ UNCHANGED <<booted, db, cookies_file, user_states, prompting, poll_pc,
                 results, history>>

\* cmd_sync: only the admin; sync_numbers_from_ivasms, then the reply.
CmdSync(caller, loaded_ok, login_ok, resp, order) ==
  /\ booted
  /\ IF caller # ADMIN_ID
     THEN /\ last' = Other
          /\ UNCHANGED <<available_numbers, cookies_file, synced>>
     ELSE LET lg == login_and_get_scraper(cookies_file, loaded_ok, login_ok)
              sy == sync_numbers_from_ivasms(available_numbers, resp, order)
          IN  /\ cookies_file' = lg.cookies
              /\ available_numbers' = sy.nums
              /\ synced' = SyncedAfter(synced, resp)
              /\ last' = Other
  /\ UNCHANGED <<booted, users, earnings, otps, withdrawals, tasks, owed,
                 credit_log, handed_out, shadowed, cycles>>

\* How many credits the poll loop applied to user u.
CreditsOf(u) ==
  BagCardinality([e \in {x \in BagToSet(credit_log) : x.user = u}
                    |-> CopiesIn(e, credit_log)])

\* The pending requests that share their user and that user's balance with the
\* pending request wid: each of the two is within the balance, both together
\* are not.  With each, the credits of the user so far.
ShadowedBy(ws, ea, wid) ==
  IF wid \notin 1..Len(ws) \/ ws[wid].status # "pending" THEN {}
  ELSE LET u == ws[wid].user_id
           bal == get_balance(ea, u)
       IN  {[wid |-> w, credits |-> CreditsOf(u)] :
              w \in {v \in 1..Len(ws) \ {wid} :
                       /\ ws[v].user_id = u
                       /\ ws[v].status = "pending"
                       /\ ws[v].amount <= bal
                       /\ ws[wid].amount <= bal
                       /\ ws[v].amount + ws[wid].amount > bal}}

\* cmd_approve: only the admin; approve_withdrawal(wid), then the replies.
CmdApprove(caller, wid) ==
  /\ booted
  /\ IF caller # ADMIN_ID
     THEN /\ last' = Other
          /\ UNCHANGED <<withdrawals, earnings, shadowed>>
     ELSE LET r == approve_withdrawal(withdrawals, earnings, wid)
          IN  /\ withdrawals' = r.ws
              /\ earnings' = r.ea
              /\ shadowed' = IF r.ok
                             THEN shadowed \cup ShadowedBy(withdrawals, earnings, wid)
                             ELSE shadowed
              /\ last' = Ret("approve", wid, r.ok)
  /\ UNCHANGED <<booted, users, available_numbers, otps, cookies_file, tasks,
                 owed, credit_log, handed_out, synced, cycles>>

\* ----------------------------------------------------- background loops

\* The owners, as the records are written, of the results whose number is owned.
OwedFor(nums, res) ==
  SetToBag({[user |-> get_user_by_number(nums, res[k].number),
             number |-> res[k].number, otp |-> res[k].otp] :
            k \in {j \in 1..Len(res) :
                     get_user_by_number(nums, res[j].number) # NULL}})

\* otp_poll_loop from its sleep to its next await: login, fetch and match (the
\* new OTPs are saved here), then the group send for the first result; with
\* no result it sleeps again.  The count of the cycles is left to the
\* specification: only SpecPoll keeps it.
PollCycle(loaded_ok, login_ok, resp) ==
  /\ booted
  /\ poll_pc = "sleep"
  /\ LET lg == login_and_get_scraper(cookies_file, loaded_ok, login_ok)
         pr == process_incoming_otps_single_scraper(resp, otps)
     IN  /\ cookies_file' = lg.cookies
         /\ otps' = pr.otps
         /\ results' = pr.results
         /\ poll_pc' = IF pr.results = <<>> THEN "sleep" ELSE "group"
         /\ owed' = owed (+) OwedFor(available_numbers, pr.results)
         /\ last' = Ret("poll", Len(pr.results), resp.status = 200)
  /\ UNCHANGED <<booted, users, earnings, available_numbers, withdrawals,
                 user_states, prompting, popping, credit_log, handed_out,
                 synced, shadowed>>

\* A send outside a try, whether the loop goes on with the statement after
\* it: a send that raised leaves the loop's body.
send_message_unguarded(sent) == sent

\* try: await bot.send_message(...) / except Exception: pass.  Whether the
\* loop goes on with the statement after it, for a send that returned (sent)
\* and for one that raised.
send_message_guarded(sent) == TRUE

\* The same exception with no except clause around the loop's body: the task
\* ends.
PollAbort_unhandled ==
  /\ poll_pc' = "ended"
  /\ results' = <<>>
  /\ last' = Other
  /\ UNCHANGED <<booted, db, cookies_file, user_states, prompting, popping,
                 history>>

\* An exception reaches the except clause of otp_poll_loop: it is logged, the
\* rest of the results is dropped and the loop sleeps.
PollAbort ==
  /\ poll_pc' = "sleep"
  /\ results' = <<>>
  /\ last' = Other
  /\ UNCHANGED <<booted, db, cookies_file, user_states, prompting, popping,
                 history>>

\* After the group send, which returned (sent) or raised: the owner is looked
\* up and credited, and the owner's message is sent; without an owner the
\* admin's message is.
PollCredit(sent) ==
  /\ booted
  /\ poll_pc = "group"
  /\ IF ~send_message_guarded(sent) THEN PollAbort
     ELSE /\ LET head == results[1]
                 owner == get_user_by_number(available_numbers, head.number)
             IN  IF owner # NULL
                 THEN /\ earnings' = credit_user(earnings, owner, EARN_PER_SMS)
                      /\ credit_log' = credit_log (+)
                           SetToBag({[user |-> owner, number |-> head.number,
                                      otp |-> head.otp]})
                      /\ poll_pc' = "owner"
                      /\ last' = Other
                 ELSE /\ UNCHANGED <<earnings, credit_log>>
                      /\ poll_pc' = "admin"
                      /\ last' = Other
          /\ UNCHANGED <<booted, users, available_numbers, otps, withdrawals,
                         cookies_file, user_states, prompting, popping,
                         results, owed, handed_out, synced, shadowed, cycles>>

\* After the group send, get_user_by_number or credit_user raises (the store
\* fails): the except clause of the loop logs it, the rest of the results is
\* dropped and the loop sleeps.
PollStoreError ==
  /\ booted
  /\ poll_pc = "group"
  /\ PollAbort

\* After the owner's message, which returned or raised: the admin's message
\* is sent.
PollOwnerNotified(sent) ==
  /\ booted
  /\ poll_pc = "owner"
  /\ IF ~send_message_guarded(sent) THEN PollAbort
     ELSE /\ poll_pc' = "admin"
          /\ last' = Other
          /\ UNCHANGED <<booted, db, cookies_file, user_states, prompting,
                         popping, results, history>>

\* After the admin's message, which returned or raised: the next result's
\* group send, or the sleep when this was the last.
PollAdminNotified(sent) ==
  /\ booted
  /\ poll_pc = "admin"
  /\ IF ~send_message_guarded(sent) THEN PollAbort
     ELSE /\ results' = Tail(results)
          /\ poll_pc' = IF Tail(results) = <<>> THEN "sleep" ELSE "group"
          /\ last' = Other
          /\ UNCHANGED <<booted, db, cookies_file, user_states, prompting,
                         popping, history>>

\* cookie_refresh_loop: login_and_get_scraper, then the scraper's cookies are
\* saved whether or not it passed the probe.
CookieRefresh(loaded_ok, login_ok) ==
  /\ booted
  /\ LET lg == login_and_get_scraper(cookies_file, loaded_ok, login_ok)
     IN  /\ cookies_file' = IF lg.probed THEN lg.cookies ELSE "unprobed"
         /\ last' = Other
  /\ UNCHANGED <<booted, db, tasks, history>>

\* ------------------------------------------------------- specification

\* The withdrawal ids the admin types; one is unknown until its row exists.
Wids == 1..MaxWithdrawals

Next ==
  \/ \E a, b \in Probes, resp \in Responses :
       \E order \in Orders(FoundIn[resp.text]) : OnStartup(a, b, resp, order)
  \/ Restart
  \/ \E u \in UserIds : CmdStart(u)
  \/ \E u \in UserIds : CbGetNumber(u)
  \/ \E u \in UserIds : CbAccount(u)
  \/ \E u \in Withdrawers : CbWithdraw(u)
  \/ \E u \in Withdrawers : CbWithdrawPrompted(u)
  \/ \E u \in Withdrawers : CbWithdrawSendFails(u)
  \/ \E u \in Withdrawers, amount \in Amounts : HandleWithdrawText(u, amount)
  \/ \E u \in Withdrawers : HandleWithdrawTextEnd(u)
  \/ \E u \in Withdrawers : HandleWithdrawTextDies(u)
  \/ \E caller \in UserIds, a, b \in Probes, resp \in Responses :
       \E order \in Orders(FoundIn[resp.text]) :
         CmdSync(caller, a, b, resp, order)
  \/ \E caller \in UserIds, wid \in Wids : CmdApprove(caller, wid)
  \/ \E a, b \in Probes, resp \in Responses :
       PollCycle(a, b, resp) /\ UNCHANGED cycles
  \/ \E sent \in BOOLEAN : PollCredit(sent)
  \/ PollStoreError
  \/ \E sent \in BOOLEAN : PollOwnerNotified(sent)
  \/ \E sent \in BOOLEAN : PollAdminNotified(sent)
  \/ \E a, b \in Probes : CookieRefresh(a, b)

Spec == Init /\ [][Next]_vars

\* ------------------------------------------------------------- claims

Pairs == {[number |-> e.number, otp |-> e.otp] : e \in BagToSet(credit_log)}

\* How many credits the poll loop applied for the pair, to any user.
CreditsForPair(pr) ==
  BagCardinality([e \in {x \in BagToSet(credit_log) :
                           x.number = pr.number /\ x.otp = pr.otp}
                    |-> CopiesIn(e, credit_log)])

\* The sum of the amounts of u's approved withdrawals among ws[k..].
RECURSIVE ApprovedSum(_, _, _)
ApprovedSum(ws, u, k) ==
  IF k > Len(ws) THEN 0
  ELSE (IF ws[k].user_id = u /\ ws[k].status = "approved"
        THEN ws[k].amount ELSE 0) + ApprovedSum(ws, u, k + 1)

\* C1: the OTP history holds at most one record for any (number, OTP code)
\* pair, whatever texts the poll cycles were fed.
C1_OneRecordPerPair == \A r \in BagToSet(otps) : CopiesIn(r, otps) = 1

\* A poll cycle got a 200 page (every page of the model holds a pair) and
\* recorded nothing, the history holding its pairs already.
C1_Witness ==
  /\ last = Ret("poll", 0, TRUE)
  /\ BagCardinality(otps) >= 1

\* C2: exactly-once crediting: no pair is credited twice, and when the bot runs
\* and its poll loop sleeps between two cycles, every pair whose number was
\* owned when a cycle first saw it has been credited, once, to that owner.
C2_ExactlyOnce ==
  /\ \A pr \in Pairs : CreditsForPair(pr) <= 1
  /\ (booted /\ poll_pc = "sleep") =>
       \A e \in BagToSet(owed) : CopiesIn(e, credit_log) = 1

\* C3: in no reachable state does the history hold a record, written while its
\* number was owned, whose reward the owner's balance does not yet include.
C3_RecordedIsCredited ==
  \A e \in BagToSet(owed) : CopiesIn(e, credit_log) >= CopiesIn(e, owed)

\* Every user's balance is the rewards credited to the user minus the user's
\* approved withdrawals, and every credit went to the owner of its number.
BalanceEquation ==
  /\ \A u \in UserIds :
       get_balance(earnings, u) =
         EARN_PER_SMS * CreditsOf(u) - ApprovedSum(withdrawals, u, 1)
  /\ \A e \in BagToSet(credit_log) :
       get_user_by_number(available_numbers, e.number) = e.user

\* The request w is approved by this step.
Approves(w) ==
  /\ withdrawals[w].status = "pending"
  /\ withdrawals' = [withdrawals EXCEPT ![w].status = "approved"]

\* A balance changes only in a step that credits that user one reward, or that
\* approves one of the user's requests and takes its amount.
BalanceFrame ==
  \A u \in UserIds :
    get_balance(earnings', u) # get_balance(earnings, u) =>
      \/ /\ \E e \in BagToSet(credit_log') :
              e.user = u /\ credit_log' = credit_log (+) SetToBag({e})
         /\ get_balance(earnings', u) = get_balance(earnings, u) + EARN_PER_SMS
         /\ withdrawals' = withdrawals
      \/ /\ \E w \in 1..Len(withdrawals) :
              /\ withdrawals[w].user_id = u
              /\ Approves(w)
              /\ get_balance(earnings', u) =
                   get_balance(earnings, u) - withdrawals[w].amount
         /\ credit_log' = credit_log

\* C4: in every reachable state Balance(U) = reward x credits applied for
\* numbers owned by U - the amounts of U's approved withdrawals, and no
\* operation other than a credit and a successful approval changes a balance.
C4_BalanceIsLedger == []BalanceEquation /\ [][BalanceFrame]_vars

\* A user was credited twice and had a withdrawal approved.
C4_Witness ==
  \E u \in UserIds :
    /\ CreditsOf(u) = 2
    /\ ApprovedSum(withdrawals, u, 1) >= 1
    /\ get_balance(earnings, u) = 2 - ApprovedSum(withdrawals, u, 1)

\* C5: no user's balance is ever negative.
C5_NeverNegative == \A u \in DOMAIN earnings : earnings[u] >= 0

\* Two requests of one user: one was approved, and the approval of the other,
\* which the balance no longer covers, has just been refused.
C5_Witness ==
  /\ last.op = "approve" /\ ~last.ok
  /\ \E w1, w2 \in 1..Len(withdrawals) :
       /\ last.n = w2
       /\ withdrawals[w1].user_id = withdrawals[w2].user_id
       /\ withdrawals[w1].status = "approved"
       /\ withdrawals[w2].status = "pending"
       /\ withdrawals[w2].amount > get_balance(earnings, withdrawals[w2].user_id)

\* C6: no number was returned by two assign requests, every number returned is
\* recorded as owned by the user it was returned to, and a number has one row.
C6_AssignInjective ==
  /\ \A e \in BagToSet(handed_out) :
       /\ CopiesIn(e, handed_out) = 1
       /\ get_user_by_number(available_numbers, e.number) = e.user
       /\ \A f \in BagToSet(handed_out) : f.number = e.number => f = e
  /\ \A i, j \in 1..Len(available_numbers) :
       available_numbers[i].number = available_numbers[j].number => i = j

\* Both users were given a number.
C6_Witness ==
  \E e, f \in BagToSet(handed_out) : e.user # f.user

\* C7: once a number's owner is set, no step changes it to another user or
\* back to unowned.
C7_OwnerIsPermanent ==
  [][\A i \in 1..Len(available_numbers) :
       available_numbers[i].assigned_to # NULL =>
         get_user_by_number(available_numbers', available_numbers[i].number)
           = available_numbers[i].assigned_to]_vars

\* An owned number's page was synced again, its owner was credited, a request
\* was approved, and the number is still that owner's.
C7_Witness ==
  \E e \in BagToSet(handed_out) :
    /\ \E t \in synced.again : e.number \in FoundIn[t]
    /\ CreditsOf(e.user) >= 1
    /\ \E w \in 1..Len(withdrawals) : withdrawals[w].status = "approved"
    /\ get_user_by_number(available_numbers, e.number) = e.user

\* C8: a sync of a text that a sync has read before leaves the table of
\* numbers as it is: no row added, no owner and no country changed.
C8_SyncIdempotent ==
  \A t \in synced.once : \A order \in Orders(FoundIn[t]) :
    sync_numbers_from_ivasms(available_numbers, [status |-> 200, text |-> t],
                             order).nums = available_numbers

\* A text was synced twice and one of its numbers is owned.
C8_Witness ==
  \E t \in synced.again : \E n \in FoundIn[t] :
    get_user_by_number(available_numbers, n) # NULL

\* C9: approve(id) of a pending request whose user's balance is below its
\* amount returns failure, leaves the request pending and changes no balance.
C9_ApproveRechecks ==
  [][(/\ last'.op = "approve"
      /\ last'.n \in 1..Len(withdrawals)
      /\ withdrawals[last'.n].status = "pending"
      /\ get_balance(earnings, withdrawals[last'.n].user_id)
           < withdrawals[last'.n].amount)
     => (~last'.ok /\ withdrawals' = withdrawals /\ earnings' = earnings)]_vars

\* The approval of a pending request that the balance no longer covers was
\* refused.
C9_Witness ==
  /\ last.op = "approve" /\ ~last.ok
  /\ last.n \in 1..Len(withdrawals)
  /\ withdrawals[last.n].status = "pending"
  /\ get_balance(earnings, withdrawals[last.n].user_id) < withdrawals[last.n].amount

\* C10: an approved request never changes again; approve(id) of an unknown or
\* approved id fails and mutates nothing; a successful approve turns one pending
\* request approved and takes its amount from its user's balance, once.
C10_ApprovedOnce ==
  [][/\ \A w \in 1..Len(withdrawals) :
          withdrawals[w].status = "approved" =>
            Len(withdrawals') >= w /\ withdrawals'[w] = withdrawals[w]
     /\ last'.op = "approve" =>
          IF last'.n \in 1..Len(withdrawals)
             /\ withdrawals[last'.n].status = "pending"
          THEN last'.ok =>
                 /\ Approves(last'.n)
                 /\ earnings' =
                      [earnings EXCEPT ![withdrawals[last'.n].user_id] =
                                         @ - withdrawals[last'.n].amount]
          ELSE ~last'.ok /\ withdrawals' = withdrawals /\ earnings' = earnings]_vars

\* The approval of a request that is already approved, and that the balance
\* would cover again, was refused.
C10_Witness ==
  /\ last.op = "approve" /\ ~last.ok
  /\ last.n \in 1..Len(withdrawals)
  /\ withdrawals[last.n].status = "approved"
  /\ get_balance(earnings, withdrawals[last.n].user_id) >= withdrawals[last.n].amount

\* C11: every request in the store, pending or approved, has an amount of at
\* least the minimum withdrawal (a submission is recorded only when the amount
\* is at most the balance and at least the configured minimum).
C11_AtLeastMinimum ==
  \A w \in 1..Len(withdrawals) : withdrawals[w].amount >= MIN_WITHDRAWAL

\* C12: the matcher writes nothing: the step in which the poll loop fetches the
\* inbox and runs process_incoming_otps_single_scraper leaves the OTP history
\* as it was, and a record is added to the history only by the step that looks
\* up the owner and applies the credit.
C12_MatcherWritesNothing ==
  [][/\ last'.op = "poll" => otps' = otps
     /\ otps' # otps => poll_pc = "group"]_vars

\* C13: a fetch that raises or returns a status other than 200 is no data: a
\* poll cycle that got such a response records no OTP, has no result and
\* changes no balance, and a sync (the admin's, or the one of the startup) that
\* got such a response leaves the table of numbers as it was.
C13_NoDataOnFailure ==
  [][\A resp \in Responses : resp.status # 200 =>
       /\ \A a, b \in Probes :
            PollCycle(a, b, resp) =>
              otps' = otps /\ results' = <<>> /\ earnings' = earnings
       /\ \A a, b \in Probes, order \in Orders(FoundIn[resp.text]) :
            /\ CmdSync(ADMIN_ID, a, b, resp, order) =>
                 available_numbers' = available_numbers
            /\ OnStartup(a, b, resp, order) =>
                 available_numbers' = available_numbers]_vars

\* --------------------------------------------------- the matcher's windows

\* The poll loop fed with the snapshots of MatcherTexts, while no user asks
\* for a number: the startup and the poll cycles.
NextMatcher ==
  \/ \E a, b \in Probes, resp \in MatcherResponses :
       \E order \in Orders(FoundIn[resp.text]) : OnStartup(a, b, resp, order)
  \/ \E a, b \in Probes, resp \in MatcherResponses :
       PollCycle(a, b, resp) /\ UNCHANGED cycles
  \/ \E sent \in BOOLEAN : PollCredit(sent)
  \/ PollStoreError
  \/ \E sent \in BOOLEAN : PollAdminNotified(sent)

SpecMatcher == Init /\ [][NextMatcher]_vars

\* The positions p..q of text hold a code of the window lo..hi: 4 to 8 digits
\* inside the window that no word character of the window touches.
IsCodeIn(text, lo, hi, p, q) ==
  /\ lo <= p /\ q <= hi
  /\ q - p + 1 >= OTP_MIN_DIGITS /\ q - p + 1 <= OTP_MAX_DIGITS
  /\ \A i \in p..q : text[i] \in Digits
  /\ (p = lo \/ text[p - 1] \notin WordChars)
  /\ (q = hi \/ text[q + 1] \notin WordChars)

CodesIn(text, lo, hi) ==
  {c \in {<<p, p + n - 1>> : p \in lo..hi,
                             n \in OTP_MIN_DIGITS..OTP_MAX_DIGITS} :
     IsCodeIn(text, lo, hi, c[1], c[2])}

\* The codes the window policy allows for the number at [m.s, m.e): the first
\* code of the 400 characters after it; when these hold none, any code of the
\* 200 characters before it.
PolicyCodes(text, m) ==
  LET fwd == CodesIn(text, m.e, Min(m.e + FWD_WINDOW - 1, Len(text)))
      back == CodesIn(text, Max(m.s - BACK_WINDOW, 1), m.s - 1)
  IN  IF fwd # {}
      THEN {SubSeq(text, c[1], c[2]) :
              c \in {d \in fwd : \A f \in fwd : d[1] <= f[1]}}
      ELSE {SubSeq(text, c[1], c[2]) : c \in back}

\* The number occurrences of each snapshot with the codes the policy allows.
PolicyIn ==
  [text \in MatcherTexts |->
     LET ms == FindNumbers(text, 1)
     IN  [k \in 1..Len(ms) |->
            [number |-> SubSeq(text, ms[k].s, ms[k].e - 1),
             codes |-> PolicyCodes(text, ms[k])]]]

\* C14: a poll cycle that fetched a snapshot records, for every number
\* occurrence, the first 4-8 digit code of the 400 characters after the number,
\* else one of the 200 characters before it, and nothing for an occurrence
\* whose two windows hold no code (a code further away is not taken).
C14_WindowPolicy ==
  [][\A resp \in MatcherResponses : \A a, b \in Probes :
       PollCycle(a, b, resp) =>
         LET pol == PolicyIn[resp.text]
             new == {results'[i] : i \in 1..Len(results')}
         IN  /\ BagToSet(otps') = BagToSet(otps) \cup new
             /\ \A r \in new : \E k \in 1..Len(pol) :
                  pol[k].number = r.number /\ r.otp \in pol[k].codes
             /\ \A k \in 1..Len(pol) :
                  pol[k].codes # {} =>
                    \E r \in BagToSet(otps') :
                      r.number = pol[k].number /\ r.otp \in pol[k].codes]_vars

\* The history holds the code after 1555000111 of the snapshot that has one
\* before it too, the code before it of the snapshot that has none after it,
\* and the pair of 1555000222 of the snapshot whose code 5566 lies behind the
\* window of 1555000111: that code was not recorded.
C14_Witness ==
  /\ BagIn([number |-> N1, otp |-> O1], otps)
  /\ BagIn([number |-> N1, otp |-> O3], otps)
  /\ BagIn([number |-> N2, otp |-> O7], otps)
  /\ \A r \in BagToSet(otps) : r.otp # O5 /\ r.otp # O2

\* ------------------------------------------------- the double-spend window

\* The snapshots of SpecLedger: three pairs of the numbers 1555000111 and
\* 1555000222, so that a user can be credited again after a balance of two
\* units was used up.
LedgerTexts == {TextTwo, TextBack}

LedgerResponses == [status : {200}, text : LedgerTexts]

\* One user who takes numbers and withdraws, the admin who approves, and the
\* poll loop that credits.
NextLedger ==
  \/ \E a, b \in Probes, resp \in LedgerResponses :
       \E order \in Orders(FoundIn[resp.text]) : OnStartup(a, b, resp, order)
  \/ \E u \in Withdrawers : CbGetNumber(u)
  \/ \E u \in Withdrawers : CbWithdraw(u)
  \/ \E u \in Withdrawers : CbWithdrawPrompted(u)
  \/ \E u \in Withdrawers, amount \in Amounts : HandleWithdrawText(u, amount)
  \/ \E u \in Withdrawers : HandleWithdrawTextEnd(u)
  \/ \E wid \in Wids : CmdApprove(ADMIN_ID, wid)
  \/ \E a, b \in Probes, resp \in LedgerResponses :
       PollCycle(a, b, resp) /\ UNCHANGED cycles
  \/ \E sent \in BOOLEAN : PollCredit(sent)
  \/ \E sent \in BOOLEAN : PollOwnerNotified(sent)
  \/ \E sent \in BOOLEAN : PollAdminNotified(sent)

SpecLedger == Init /\ [][NextLedger]_vars

\* C15 as the specification states it: of two pending requests of a user that
\* are each within the balance and together above it, the one approved first
\* succeeds, and the other is not approved afterwards: it stays pending.
C15_LaterApprovalFails ==
  \A e \in shadowed : withdrawals[e.wid].status = "pending"

\* A request left behind by the approval of another is approved later only
\* after its user was credited again.
ShadowedUntilCredited ==
  \A e \in shadowed :
    withdrawals[e.wid].status = "approved" =>
      CreditsOf(withdrawals[e.wid].user_id) > e.credits

\* The approval of one of two such requests succeeds, takes the balance below
\* the amount of the other and leaves the other pending, so that its approval
\* right after fails; and while the user has not been credited again, an
\* approval of the other fails and changes nothing.
FirstApprovalWins ==
  /\ \A wid \in Wids :
       (last'.op = "approve" /\ last'.n = wid
          /\ ShadowedBy(withdrawals, earnings, wid) # {}) =>
         /\ last'.ok
         /\ Approves(wid)
         /\ \A e \in ShadowedBy(withdrawals, earnings, wid) :
              /\ withdrawals'[e.wid].status = "pending"
              /\ get_balance(earnings', withdrawals[wid].user_id)
                   < withdrawals[e.wid].amount
              /\ ~approve_withdrawal(withdrawals', earnings', e.wid).ok
  /\ \A e \in shadowed :
       (/\ last'.op = "approve" /\ last'.n = e.wid
        /\ withdrawals[e.wid].status = "pending"
        /\ CreditsOf(withdrawals[e.wid].user_id) = e.credits) =>
         ~last'.ok /\ withdrawals' = withdrawals /\ earnings' = earnings

\* C15, amended: a user can hold pending requests that sum to more than the
\* balance; of two that are each within the balance, the one approved first
\* succeeds, and the approval of the other fails and leaves it pending for as
\* long as the user is not credited again.
C15_LaterApprovalFailsUntilCredited ==
  []ShadowedUntilCredited /\ [][FirstApprovalWins]_vars

\* Two requests of one user: the first approval succeeded, and the approval of
\* the other has just been refused, no credit having arrived in between.
C15_Witness ==
  /\ last.op = "approve" /\ ~last.ok
  /\ \E e \in shadowed :
       /\ e.wid = last.n
       /\ withdrawals[e.wid].status = "pending"
       /\ CreditsOf(withdrawals[e.wid].user_id) = e.credits
       /\ \E w \in 1..Len(withdrawals) :
            w # e.wid /\ withdrawals[w].status = "approved"

\* C16: an OTP whose number had no owner when its record was written is never
\* credited to anyone: every credit applied is for a pair that was recorded
\* while its number was owned, whatever handlers ran while the poll loop was
\* sending its notifications.
C16_UnownedNeverCredited ==
  \A e \in BagToSet(credit_log) :
    \E o \in BagToSet(owed) : o.number = e.number /\ o.otp = e.otp

\* ------------------------------------------ the poll loop under failures

\* The probes of SpecPoll succeed or fail.
ProbeOutcomes == BOOLEAN

\* Telegram cannot be reached: every send raises.
Outage == {FALSE}

\* One step of the task otp_poll_loop, the cycles counted.
PollTask ==
  \/ \E a, b \in ProbeOutcomes, resp \in Responses :
       PollCycle(a, b, resp) /\ cycles' = 1 - cycles
  \/ \E sent \in Outage : PollCredit(sent)
  \/ PollStoreError
  \/ \E sent \in Outage : PollOwnerNotified(sent)
  \/ \E sent \in Outage : PollAdminNotified(sent)

Startup ==
  \E a, b \in ProbeOutcomes, resp \in Responses :
    \E order \in Orders(FoundIn[resp.text]) : OnStartup(a, b, resp, order)

\* The two background tasks while logins, fetches, the store and every send
\* can fail, and a user who takes numbers.
NextPoll ==
  \/ Startup
  \/ \E u \in Withdrawers : CbGetNumber(u)
  \/ PollTask
  \/ \E a, b \in ProbeOutcomes : CookieRefresh(a, b)

\* main runs on_startup, and the event loop resumes the poll task when what it
\* awaits (the sleep, a send) has returned or raised.
SpecPoll ==
  Init /\ [][NextPoll]_vars /\ WF_vars(Startup) /\ WF_vars(PollTask)

\* C17: no failure ends the poll task: whatever failed in the cycles so far
\* (login, fetch, matching, the store, a send), the task runs on and another
\* poll cycle starts.
C17_NextCycleStarts ==
  /\ [](booted => poll_pc \in {"sleep", "group", "owner", "admin"})
  /\ \A c \in {0, 1} : (booted /\ cycles = c) ~> (cycles = 1 - c)

\* A second poll cycle has started and its fetch failed, after a cycle whose
\* logins failed the probe as every login so far did.
C17_Witness ==
  /\ cycles = 0
  /\ last = Ret("poll", 0, FALSE)
  /\ cookies_file = "absent"

\* C18: a send that raises changes nothing in the ledger and does not stop the
\* cycle: whether the group send returned or raised, the owner of the OTP is
\* credited the reward; whether the owner's and the admin's message returned or
\* raised, no balance changes and the loop goes on to the next OTP of the cycle.
C18_SendFailureKeepsCredit ==
  [][\A sent \in BOOLEAN :
       /\ PollCredit(sent) =>
            LET owner == get_user_by_number(available_numbers,
                                            results[1].number)
            IN  /\ results' = results
                /\ owner # NULL =>
                     /\ earnings' = credit_user(earnings, owner, EARN_PER_SMS)
                     /\ poll_pc' = "owner"
       /\ PollOwnerNotified(sent) =>
            earnings' = earnings /\ results' = results /\ poll_pc' = "admin"
       /\ PollAdminNotified(sent) =>
            /\ earnings' = earnings
            /\ results' = Tail(results)
            /\ Tail(results) # <<>> => poll_pc' = "group"]_vars

\* Every send so far raised; the first poll cycle found two OTPs of numbers of
\* one user, and the user has been credited for both.
C18_Witness ==
  /\ cycles = 1
  /\ poll_pc = "owner"
  /\ Len(results) = 1
  /\ \E u \in UserIds : CreditsOf(u) = 2 /\ get_balance(earnings, u) = 2

\* C19: the code of every recorded tuple is a run of 4 to 8 digits that the
\* phone-number pattern (6 to 15 digits) does not match.
C19_CodeNotPhoneShaped ==
  \A r \in BagToSet(otps) :
    /\ Len(r.otp) >= OTP_MIN_DIGITS /\ Len(r.otp) <= OTP_MAX_DIGITS
    /\ \A i \in 1..Len(r.otp) : r.otp[i] \in Digits
    /\ FindNumbers(r.otp, 1) = <<>>

\* C20: when the loaded session and the fresh login both fail the probe, the
\* session is not trusted: a poll cycle with such a session matches and records
\* nothing, and neither it nor the cookie refresh writes the session to
\* cookies.json.
C20_TrustedOnlyAfterProbe ==
  [][/\ \A resp \in Responses :
          PollCycle(FALSE, FALSE, resp) =>
            otps' = otps /\ results' = <<>> /\ cookies_file' = cookies_file
     /\ CookieRefresh(FALSE, FALSE) => cookies_file' = cookies_file]_vars

\* ----------------------------------------------------------- registration

\* The snapshot the poll cycles of SpecRegister fetch.
RegisterResponses == [status : {200}, text : {TextTwo}]

\* Every handler that starts with ensure_user, for both users, with what
\* gives a user something to lose: the poll loop that credits, the submission
\* of withdrawal requests and their approval.
NextRegister ==
  \/ \E a, b \in Probes, resp \in RegisterResponses :
       \E order \in Orders(FoundIn[resp.text]) : OnStartup(a, b, resp, order)
  \/ \E u \in UserIds : CmdStart(u)
  \/ \E u \in UserIds : CbGetNumber(u)
  \/ \E u \in UserIds : CbAccount(u)
  \/ \E u \in Withdrawers : CbWithdraw(u)
  \/ \E u \in Withdrawers : CbWithdrawPrompted(u)
  \/ \E u \in Withdrawers, amount \in Amounts : HandleWithdrawText(u, amount)
  \/ \E u \in Withdrawers : HandleWithdrawTextEnd(u)
  \/ \E wid \in Wids : CmdApprove(ADMIN_ID, wid)
  \/ \E a, b \in Probes, resp \in RegisterResponses :
       PollCycle(a, b, resp) /\ UNCHANGED cycles
  \/ \E sent \in BOOLEAN : PollCredit(sent)
  \/ \E sent \in BOOLEAN : PollOwnerNotified(sent)
  \/ \E sent \in BOOLEAN : PollAdminNotified(sent)

SpecRegister == Init /\ [][NextRegister]_vars

\* The numbers of the table that user u owns.
Owned(nums, u) ==
  {nums[i].number : i \in {j \in 1..Len(nums) : nums[j].assigned_to = u}}

\* A step of a handler, up to its first await, that starts with ensure_user
\* for user u.  Such a step leaves the OTP history and the poll loop alone.
Registers(u) ==
  /\ otps' = otps /\ poll_pc' = poll_pc /\ user_states' = user_states
  /\ u \in users'
  /\ CmdStart(u) \/ CbGetNumber(u) \/ CbAccount(u) \/ CbWithdraw(u)

\* C21: the first ensure_user of a user creates the user with balance 0; every
\* later one (each handler starts with it) leaves the user's balance and
\* withdrawal requests as they were and takes none of the user's numbers
\* away, cb_get_number alone adding the number it assigns; no other user's
\* row, balance or number changes.
C21_RegisterIdempotent ==
  [][\A u \in UserIds :
       Registers(u) =>
         /\ users' = users \cup {u}
         /\ get_balance(earnings', u) =
              IF u \in users THEN get_balance(earnings, u) ELSE 0
         /\ u \in DOMAIN earnings'
         /\ \A v \in UserIds \ {u} :
              /\ get_balance(earnings', v) = get_balance(earnings, v)
              /\ Owned(available_numbers', v) = Owned(available_numbers, v)
         /\ withdrawals' = withdrawals
         /\ Owned(available_numbers, u) \subseteq Owned(available_numbers', u)
         /\ ~CbGetNumber(u) => available_numbers' = available_numbers]_vars

\* A user who owns a number, was credited twice and holds a withdrawal request:
\* cb_get_number registered the user, cb_withdraw registered the user again
\* when the balance was 2, and the balance is still what was credited.
C21_Witness ==
  \E u \in users :
    /\ Owned(available_numbers, u) # {}
    /\ CreditsOf(u) = 2
    /\ get_balance(earnings, u) = 2
    /\ \E w \in 1..Len(withdrawals) :
         withdrawals[w].user_id = u /\ withdrawals[w].status = "pending"
    /\ last = Other

====
